---- MODULE Spec2Model ----
(***************************************************************************)
(* Lutron Caseta integration (homeassistant/components/lutron_caseta):     *)
(* device identity and naming resolution, legacy button translation, the   *)
(* device removal gate, button event publishing and entity construction.   *)
(*                                                                         *)
(* Python values that may be None or of mixed type are tagged tuples:      *)
(* PyNone, PyInt(n), PyStr(s).  A Python dict is a function; "k in d" is   *)
(* k \in DOMAIN d.  A call either returns (Ok) or raises (Raise).          *)
(***************************************************************************)
EXTENDS Integers, Sequences, FiniteSets, TLC

\* ------------------------------------------------------------------ bounds
MaxAreas == 3
RecursionLimit == 6
MaxEvents == 2
MaxLeapButton == 2

\* ------------------------------------------------------- python values
PyNone == <<"None">>
PyInt(n) == <<"int", n>>
PyStr(s) == <<"str", s>>

Has(d, k) == k \in DOMAIN d

\* A dict with no keys, and a field a record may lack
Missing == <<"missing">>
Empty == [k \in {} |-> k]
OptVal(k, v) == IF v = Missing THEN Empty ELSE (k :> v)
OptStr(k, v) == IF v = Missing THEN Empty ELSE (k :> v[2])

Ok(v) == [kind |-> "ok", val |-> v]
Raise(e) == [kind |-> "raise", err |-> e]

\* " ".join((a, b))
JoinSpace(a, b) == a \o " " \o b

\* sub in s
Contains(s, sub) ==
    \E i \in 1..(Len(s) - Len(sub) + 1) : SubSeq(s, i, i + Len(sub) - 1) = sub

\* ------------------------------------------------------------ constants
DOMAIN_NAME == "lutron_caseta"
UNASSIGNED_AREA == "Unassigned"
BRIDGE_DEVICE_ID == "1"
BUTTON_STATUS_PRESSED == "Press"
ACTION_PRESS == "press"
ACTION_RELEASE == "release"

VARIABLES areas, devices, buttons, occupancy_groups, leap_map, lip_map,
          setup, dev_reg, subscribers, hass_data, bridge_closed,
          events, entities, last

tables == <<areas, devices, buttons, occupancy_groups, leap_map, lip_map>>
hass == <<setup, dev_reg, subscribers, hass_data, bridge_closed, events, entities>>
vars == <<areas, devices, buttons, occupancy_groups, leap_map, lip_map,
          setup, dev_reg, subscribers, hass_data, bridge_closed,
          events, entities, last>>

\* ------------------------------------------------------------ area path
\* _area_name_from_id joining the leaf's name before its parents' (leaf-to-root)
RECURSIVE area_name_leaf_first(_, _, _)
area_name_leaf_first(ar, area_id, depth) ==
    IF depth >= RecursionLimit THEN Raise("RecursionError")
    ELSE IF ~Has(ar, area_id) THEN Raise("KeyError")
    ELSE IF Has(ar[area_id], "parent_id") /\ ar[area_id].parent_id # PyNone
         THEN LET up == area_name_leaf_first(ar, ar[area_id].parent_id[2], depth + 1)
              IN  IF up.kind = "raise" THEN up
                  ELSE Ok(JoinSpace(ar[area_id].name, up.val))
         ELSE Ok(ar[area_id].name)

\* _area_name_from_id, with the interpreter's recursion limit: `depth` is the
\* number of frames of the function already on the call stack.
RECURSIVE area_name_from_id_at(_, _, _)
area_name_from_id_at(ar, area_id, depth) ==
    IF depth >= RecursionLimit THEN Raise("RecursionError")
    ELSE IF ~Has(ar, area_id) THEN Raise("KeyError")
    ELSE IF Has(ar[area_id], "parent_id") /\ ar[area_id].parent_id # PyNone
         THEN LET parent_area == ar[area_id].parent_id[2]
                  up == area_name_from_id_at(ar, parent_area, depth + 1)
              IN  IF up.kind = "raise" THEN up
                  ELSE Ok(JoinSpace(up.val, ar[area_id].name))
         ELSE Ok(ar[area_id].name)

area_name_from_id(ar, area_id) == area_name_from_id_at(ar, area_id, 0)

\* The number of frames of _area_name_from_id one call enters.
RECURSIVE area_name_frames_at(_, _, _)
area_name_frames_at(ar, area_id, depth) ==
    IF depth >= RecursionLimit THEN 0
    ELSE IF ~Has(ar, area_id) THEN 1
    ELSE IF Has(ar[area_id], "parent_id") /\ ar[area_id].parent_id # PyNone
         THEN 1 + area_name_frames_at(ar, ar[area_id].parent_id[2], depth + 1)
         ELSE 1

area_name_frames(ar, area_id) == area_name_frames_at(ar, area_id, 0)

\* ------------------------------------------------------ device identity
\* _get_ha_device_info(bridge, bridge_device, device): bridge.get_devices() is
\* devs and bridge.areas is ar, both read when the call is made.
\* The name prefix and suffix _get_ha_device_info takes from the naming device
ha_device_name_prefix(ha_device) ==
    IF Has(ha_device, "control_station_name")
    THEN ha_device.control_station_name \o " " ELSE ""

\* The suffix chosen from the type alone, whether or not a station name exists
suffix_ignoring_station(ha_device) ==
    IF Contains(ha_device.type, "Pico") THEN " Pico"
    ELSE IF Contains(ha_device.type, "Keypad") THEN " Keypad"
    ELSE ""

ha_device_name_suffix(ha_device) ==
    IF ~Has(ha_device, "control_station_name") THEN ""
    ELSE IF Contains(ha_device.type, "Pico") THEN " Pico"
    ELSE IF Contains(ha_device.type, "Keypad") THEN " Keypad"
    ELSE ""

\* The entity name joined with the device name for every device, parent or not
entity_name_always_joined(has_parent, ha_device_name, own_name) ==
    JoinSpace(ha_device_name, own_name)

\* The entity name _get_ha_device_info returns, own_name being the device's
\* device_name ("" when it has none)
resolved_entity_name(has_parent, ha_device_name, own_name) ==
    IF has_parent THEN JoinSpace(ha_device_name, own_name) ELSE own_name

get_ha_device_info(devs, ar, bridge_device, device) ==
    LET own_name == IF Has(device, "device_name") THEN device.device_name ELSE ""
        has_parent == Has(device, "parent_device") /\ device.parent_device # PyNone
    IN
    IF has_parent /\ ~Has(devs, device.parent_device[2]) THEN Raise("KeyError")
    ELSE
    LET ha_device == IF has_parent THEN devs[device.parent_device[2]] ELSE device
        area_out == area_name_from_id(ar, ha_device.area)
    IN
    IF area_out.kind = "raise" THEN area_out
    ELSE IF ~Has(ha_device, "device_name") THEN Raise("KeyError")
    ELSE
    LET ha_device_area == area_out.val
        ha_device_name ==
            ha_device_name_prefix(ha_device) \o ha_device.device_name
                \o ha_device_name_suffix(ha_device)
        entity_name == resolved_entity_name(has_parent, ha_device_name, own_name)
    IN
    IF ~Has(ha_device, "serial") THEN Raise("KeyError")
    ELSE Ok([ha_device_identifiers |-> ha_device.serial,
             ha_device_model |-> ha_device.model,
             ha_device_type |-> ha_device.type,
             ha_device_model_combined |-> JoinSpace(ha_device.model, ha_device.type),
             ha_device_via_device |-> bridge_device.serial,
             ha_device_name |-> ha_device_name,
             ha_device_area |-> ha_device_area,
             ha_device_name_combined |-> JoinSpace(ha_device_area, ha_device_name),
             entity_name |-> entity_name,
             entity_name_combined |-> JoinSpace(ha_device_area, entity_name)])

\* util.serial_to_unique_id(serial): hex(serial)[2:].zfill(8)
HexDigit(n) == SubSeq("0123456789abcdef", n + 1, n + 1)

RECURSIVE Hex(_)
Hex(n) == IF n < 16 THEN HexDigit(n) ELSE Hex(n \div 16) \o HexDigit(n % 16)

RECURSIVE ZFill(_, _)
ZFill(s, width) == IF Len(s) >= width THEN s ELSE ZFill("0" \o s, width)

serial_to_unique_id(serial) == ZFill(Hex(serial[2]), 8)

\* LutronCasetaDevice._handle_none_serial, for an entity of the bridge whose
\* unique id is bridge_unique_id and whose device_id property is device_id.
handle_none_serial(bridge_unique_id, device_id, serial) ==
    IF serial = PyNone THEN PyStr(bridge_unique_id \o "_" \o device_id)
    ELSE serial

\* str(x) of a tagged value
PyToStr(v) == IF v[1] = "int" THEN ToString(v[2]) ELSE v[2]

\* _id_to_identifier
id_to_identifier(lutron_id) == <<DOMAIN_NAME, lutron_id>>

\* ------------------------------------------------------------- entities
MANUFACTURER == "Lutron Electronics Co., Inc"
CONFIG_URL == "https://device-login.lutron.com"

\* LutronCasetaDevice.__init__(device, bridge, bridge_device) for the device the
\* table tbl holds under id; kind is "button" for a LutronCasetaButton.  The
\* entity keeps a reference to the device record, not a copy.
LutronCasetaDevice_init(devs, ar, bridge_device, device, kind, tbl, id) ==
    LET bridge_unique_id == serial_to_unique_id(bridge_device.serial)
        out == get_ha_device_info(devs, ar, bridge_device, device)
        self == [constructed |-> TRUE, kind |-> kind, tbl |-> tbl, id |-> id,
                 bridge_unique_id |-> bridge_unique_id]
    IN
    IF out.kind = "raise" THEN out
    ELSE IF ~Has(device, "serial") THEN Ok(self @@ [has_attrs |-> FALSE])
    ELSE
    LET ha_device_info == out.val
        info == [identifiers |->
                    {id_to_identifier(
                        handle_none_serial(bridge_unique_id, device.device_id,
                                           ha_device_info.ha_device_identifiers))},
                 manufacturer |-> MANUFACTURER,
                 model |-> ha_device_info.ha_device_model_combined,
                 name |-> ha_device_info.ha_device_name_combined,
                 via_device |-> id_to_identifier(ha_device_info.ha_device_via_device),
                 configuration_url |-> CONFIG_URL]
               @@ (IF ha_device_info.ha_device_area # UNASSIGNED_AREA
                   THEN [suggested_area |-> ha_device_info.ha_device_area]
                   ELSE Empty)
    IN  Ok(self @@ [has_attrs |-> TRUE,
                    attr_name |-> ha_device_info.entity_name_combined,
                    attr_device_info |-> info])

\* The serial property: LutronCasetaButton's is None, the base class reads the
\* device record the entity refers to.
entity_serial(self, device) ==
    IF self.kind = "button" THEN Ok(PyNone)
    ELSE IF ~Has(device, "serial") THEN Raise("KeyError")
    ELSE Ok(device.serial)

\* The unique_id property of a constructed entity whose device record is device
entity_unique_id(self, device) ==
    LET serial == entity_serial(self, device)
    IN  IF serial.kind = "raise" THEN serial
        ELSE Ok(PyToStr(handle_none_serial(self.bridge_unique_id, device.device_id,
                                           serial.val)))

\* ------------------------------------------------------- legacy buttons
\* device_trigger._lutron_model_to_device_type(model, device_type): the static
\* classification of a device by its model, else by its type.
LUTRON_MODEL_TO_TYPE == [m \in {"PJ2-3BRL"} |-> "Pico3ButtonRaiseLower"]

lutron_model_to_device_type(model, device_type) ==
    IF Has(LUTRON_MODEL_TO_TYPE, model) THEN LUTRON_MODEL_TO_TYPE[model]
    ELSE device_type

\* async_get_lip_button(device_type, leap_button) over the tables
\* DEVICE_TYPE_SUBTYPE_MAP_TO_LIP (lip) and LEAP_TO_DEVICE_TYPE_SUBTYPE_MAP (leap)
async_get_lip_button(lip, leap, device_type, leap_button) ==
    IF ~Has(lip, device_type) \/ ~Has(leap, device_type) THEN Ok(PyNone)
    ELSE LET lip_buttons_name_to_num == lip[device_type]
             leap_button_num_to_name == leap[device_type]
         IN  IF ~Has(leap_button_num_to_name, leap_button) THEN Raise("KeyError")
             ELSE IF ~Has(lip_buttons_name_to_num, leap_button_num_to_name[leap_button])
                  THEN Raise("KeyError")
             ELSE Ok(PyInt(lip_buttons_name_to_num[leap_button_num_to_name[leap_button]]))

\* ---------------------------------------------------------- removal gate
\* The identifiers collected without the serials of bridge.get_devices()
identifiers_without_devices(devs, btns, groups) ==
    LET bridge_unique_id == serial_to_unique_id(devs[BRIDGE_DEVICE_ID].serial)
    IN  {id_to_identifier(PyStr(bridge_unique_id))}
        \cup {id_to_identifier(PyStr("occupancygroup_" \o bridge_unique_id \o "_"
                                      \o groups[g].occupancy_group_id)) :
                g \in DOMAIN groups}
        \cup {id_to_identifier(btns[b].serial) : b \in DOMAIN btns}

\* The identifiers async_remove_config_entry_device collects for a bridge.
all_identifiers(devs, btns, groups) ==
    LET bridge_unique_id == serial_to_unique_id(devs[BRIDGE_DEVICE_ID].serial)
    IN  {id_to_identifier(PyStr(bridge_unique_id))}
        \cup {id_to_identifier(PyStr("occupancygroup_" \o bridge_unique_id \o "_"
                                      \o groups[g].occupancy_group_id)) :
                g \in DOMAIN groups}
        \cup {id_to_identifier(devs[d].serial) : d \in DOMAIN devs}
        \cup {id_to_identifier(btns[b].serial) : b \in DOMAIN btns}

\* async_remove_config_entry_device for a device entry with these identifiers
async_remove_config_entry_device(devs, btns, groups, identifiers) ==
    IF (\E d \in DOMAIN devs : ~Has(devs[d], "serial"))
       \/ (\E b \in DOMAIN btns : ~Has(btns[b], "serial"))
    THEN Raise("KeyError")
    ELSE Ok(~(\E identifier \in identifiers :
                identifier \in all_identifiers(devs, btns, groups)))

\* ---------------------------------------------------------------- calls
\* One call of _area_name_from_id(bridge.areas, area_id)
AreaNameCall(area_id) ==
    /\ last' = [op |-> "area_name", area_id |-> area_id,
                out |-> area_name_from_id(areas, area_id),
                frames |-> area_name_frames(areas, area_id)]
    /\ UNCHANGED <<tables, hass>>

\* The device record a table holds under an id
DeviceOf(tbl, id) == IF tbl = "devices" THEN devices[id] ELSE buttons[id]

\* A call of _get_ha_device_info that stores the combined name it built into the
\* device record it was passed
DeviceInfoCallStoringName(tbl, id) ==
    LET out == get_ha_device_info(devices, areas, devices[BRIDGE_DEVICE_ID], DeviceOf(tbl, id))
        stored == IF out.kind = "ok"
                  THEN ("device_name" :> out.val.ha_device_name_combined) @@ DeviceOf(tbl, id)
                  ELSE DeviceOf(tbl, id)
    IN  /\ last' = [op |-> "device_info", tbl |-> tbl, id |-> id, out |-> out]
        /\ devices' = IF tbl = "devices" THEN [devices EXCEPT ![id] = stored] ELSE devices
        /\ buttons' = IF tbl = "buttons" THEN [buttons EXCEPT ![id] = stored] ELSE buttons
        /\ UNCHANGED <<areas, occupancy_groups, leap_map, lip_map, hass>>

\* One call of _get_ha_device_info(bridge, bridge_device, device)
DeviceInfoCall(tbl, id) ==
    /\ last' = [op |-> "device_info", tbl |-> tbl, id |-> id,
                out |-> get_ha_device_info(devices, areas,
                                           devices[BRIDGE_DEVICE_ID], DeviceOf(tbl, id))]
    /\ UNCHANGED <<tables, hass>>

\* One call of async_get_lip_button(device_type, leap_button)
LipButtonCall(device_type, leap_button) ==
    /\ last' = [op |-> "lip_button", device_type |-> device_type,
                leap_button |-> leap_button,
                out |-> async_get_lip_button(lip_map, leap_map, device_type, leap_button)]
    /\ UNCHANGED <<tables, hass>>

\* LutronCasetaDevice(device, bridge, bridge_device) built by a platform for the
\* device of key = <<table, id>>; button.py builds a LutronCasetaButton only for
\* a button that has a device_name.
ConstructEntity(key) ==
    /\ Has(IF key[1] = "devices" THEN devices ELSE buttons, key[2])
    /\ key[1] = "buttons" => Has(buttons[key[2]], "device_name")
    /\ ~entities[key].constructed
    /\ LET out == LutronCasetaDevice_init(
                      devices, areas, devices[BRIDGE_DEVICE_ID], DeviceOf(key[1], key[2]),
                      IF key[1] = "buttons" THEN "button" ELSE "device", key[1], key[2])
       IN  /\ last' = [op |-> "construct", key |-> key, out |-> out]
           /\ entities' = IF out.kind = "ok" THEN [entities EXCEPT ![key] = out.val]
                          ELSE entities
    /\ UNCHANGED <<tables, setup, dev_reg, subscribers, hass_data, bridge_closed, events>>

\* A read of the unique_id property of a constructed entity
UniqueIdCall(key) ==
    /\ entities[key].constructed
    /\ last' = [op |-> "unique_id", key |-> key,
                out |-> entity_unique_id(entities[key], DeviceOf(key[1], key[2]))]
    /\ UNCHANGED <<tables, hass>>

\* One call of async_remove_config_entry_device for a device entry with these
\* identifiers; hass.data holds the bridge only after a successful setup.
RemoveDeviceCall(identifiers) ==
    /\ last' = [op |-> "remove", identifiers |-> identifiers,
                out |-> IF ~hass_data THEN Raise("KeyError")
                        ELSE async_remove_config_entry_device(
                                 devices, buttons, occupancy_groups, identifiers)]
    /\ UNCHANGED <<tables, hass>>

\* ---------------------------------------------------------------- setup
\* The order in which bridge.buttons yields its buttons
ButtonOrder == <<"3", "4">>

\* _async_register_button_devices from the i-th button on: the device registry
\* it leaves and whether it returned or raised.
RECURSIVE register_button_devices(_, _, _, _, _, _, _)
register_button_devices(devs, ar, bridge_device, btns, i, reg, seen) ==
    IF i > Len(ButtonOrder) THEN [out |-> Ok(TRUE), reg |-> reg]
    ELSE IF ~Has(btns, ButtonOrder[i])
         THEN register_button_devices(devs, ar, bridge_device, btns, i + 1, reg, seen)
    ELSE
    LET device == btns[ButtonOrder[i]]
        info == get_ha_device_info(devs, ar, bridge_device, device)
    IN  IF info.kind = "raise" THEN [out |-> info, reg |-> reg]
        ELSE IF ~Has(device, "serial") \/ info.val.ha_device_identifiers \in seen
             THEN register_button_devices(devs, ar, bridge_device, btns, i + 1, reg, seen)
        ELSE register_button_devices(
                 devs, ar, bridge_device, btns, i + 1,
                 reg \cup {id_to_identifier(info.val.ha_device_identifiers)},
                 seen \cup {info.val.ha_device_identifiers})

\* A setup that registers the bridge device before it looks at how the
\* connection attempt ended
SetupEntryRegisteringFirst(conn) ==
    /\ setup = "new"
    /\ last' = [op |-> "setup", conn |-> conn]
    /\ IF conn = "ssl_error"
       THEN /\ setup' = "failed"
            /\ UNCHANGED <<dev_reg, subscribers, hass_data, bridge_closed>>
       ELSE LET bridge_device == devices[BRIDGE_DEVICE_ID]
                with_bridge == dev_reg \cup {id_to_identifier(bridge_device.serial)}
                registered == register_button_devices(
                                  devices, areas, bridge_device, buttons, 1, with_bridge, {})
            IN  IF conn \in {"timeout", "refused"}
                THEN /\ setup' = "not_ready"
                     /\ bridge_closed' = TRUE
                     /\ dev_reg' = with_bridge
                     /\ UNCHANGED <<subscribers, hass_data>>
                ELSE /\ dev_reg' = registered.reg
                     /\ IF registered.out.kind = "raise"
                        THEN /\ setup' = "error"
                             /\ UNCHANGED <<subscribers, hass_data>>
                        ELSE /\ setup' = "loaded"
                             /\ subscribers' = DOMAIN buttons
                             /\ hass_data' = TRUE
                     /\ UNCHANGED bridge_closed
    /\ UNCHANGED <<tables, events, entities>>

\* async_setup_entry; conn is how Smartbridge.create_tls and bridge.connect end:
\* "ssl_error", "timeout", "refused" (connect returned, is_connected() false) or
\* "connected".  The unique-id migration touches the entity registry only.
SetupEntry(conn) ==
    /\ setup = "new"
    /\ last' = [op |-> "setup", conn |-> conn]
    /\ IF conn = "ssl_error"
       THEN /\ setup' = "failed"
            /\ UNCHANGED <<dev_reg, subscribers, hass_data, bridge_closed>>
       ELSE IF conn \in {"timeout", "refused"}
       THEN /\ setup' = "not_ready"
            /\ bridge_closed' = TRUE
            /\ UNCHANGED <<dev_reg, subscribers, hass_data>>
       ELSE LET bridge_device == devices[BRIDGE_DEVICE_ID]
                with_bridge == dev_reg \cup {id_to_identifier(bridge_device.serial)}
                registered == register_button_devices(
                                  devices, areas, bridge_device, buttons, 1, with_bridge, {})
            IN  /\ dev_reg' = registered.reg
                /\ IF registered.out.kind = "raise"
                   THEN /\ setup' = "error"
                        /\ UNCHANGED <<subscribers, hass_data>>
                   ELSE /\ setup' = "loaded"
                        /\ subscribers' = DOMAIN buttons
                        /\ hass_data' = TRUE
                /\ UNCHANGED bridge_closed
    /\ UNCHANGED <<tables, events, entities>>

\* --------------------------------------------------------- button events
\* The event data carrying the button's own name, not the resolved display name
button_event_data_own_name(ha_device_info, device, type_, lip_button_number, hass_device_id, action) ==
    [serial |-> ha_device_info.ha_device_identifiers,
     type |-> type_,
     button_number |-> lip_button_number,
     leap_button_number |-> device.button_number,
     device_name |-> device.device_name,
     device_id |-> hass_device_id,
     area_name |-> ha_device_info.ha_device_area,
     action |-> action]

\* The event data _async_button_event fires for a device and its resolved info
button_event_data(ha_device_info, device, type_, lip_button_number, hass_device_id, action) ==
    [serial |-> ha_device_info.ha_device_identifiers,
     type |-> type_,
     button_number |-> lip_button_number,
     leap_button_number |-> device.button_number,
     device_name |-> ha_device_info.ha_device_name,
     device_id |-> hass_device_id,
     area_name |-> ha_device_info.ha_device_area,
     action |-> action]

\* _async_button_event(button_id, event_type): Ok(<<event>>) when it fires one
\* event, Ok(<<>>) when it returns without, Raise when it fails before firing.
async_button_event(devs, ar, btns, reg, lip, leap, button_id, event_type) ==
    IF ~Has(btns, button_id) THEN Ok(<<>>)
    ELSE
    LET device == btns[button_id]
        action == IF event_type = BUTTON_STATUS_PRESSED THEN ACTION_PRESS
                  ELSE ACTION_RELEASE
        info == get_ha_device_info(devs, ar, devs[BRIDGE_DEVICE_ID], device)
    IN
    IF info.kind = "raise" THEN info
    ELSE
    LET hass_device == id_to_identifier(info.val.ha_device_identifiers)
        type_ == lutron_model_to_device_type(info.val.ha_device_model,
                                             info.val.ha_device_type)
        lip_button_number == async_get_lip_button(lip, leap, type_, device.button_number)
    IN  IF lip_button_number.kind = "raise" THEN lip_button_number
        ELSE IF hass_device \notin reg THEN Raise("AttributeError")
        ELSE Ok(<<button_event_data(info.val, device, type_, lip_button_number.val,
                                    hass_device, action)>>)

\* The bridge delivers a press or release of a subscribed button
ButtonEvent(button_id, event_type) ==
    /\ button_id \in subscribers
    /\ Len(events) < MaxEvents
    /\ LET out == async_button_event(devices, areas, buttons, dev_reg, lip_map, leap_map,
                                     button_id, event_type)
       IN  /\ last' = [op |-> "button_event", button_id |-> button_id,
                       event_type |-> event_type, kind |-> out.kind,
                       fired |-> IF out.kind = "ok" THEN Len(out.val) ELSE 0]
           /\ events' = IF out.kind = "ok" THEN events \o out.val ELSE events
    /\ UNCHANGED <<tables, setup, dev_reg, subscribers, hass_data, bridge_closed, entities>>

\* ------------------------------------------------------- table updates
\* The bridge session renames an area: bridge.areas is read live
BridgeRenamesArea(area_id, name) ==
    /\ areas[area_id].name # name
    /\ areas' = [areas EXCEPT ![area_id].name = name]
    /\ last' = [op |-> "update"]
    /\ UNCHANGED <<devices, buttons, occupancy_groups, leap_map, lip_map, hass>>

\* The bridge session renames a device: bridge.get_devices() is read live
BridgeRenamesDevice(device_id, name) ==
    /\ devices[device_id].device_name # name
    /\ devices' = [devices EXCEPT ![device_id].device_name = name]
    /\ last' = [op |-> "update"]
    /\ UNCHANGED <<areas, buttons, occupancy_groups, leap_map, lip_map, hass>>

\* --------------------------------------------------------------- tables
\* The tables are the bridge session's: the model draws them from these sets.

AreaIds == {ToString(i) : i \in 1..MaxAreas}
AreaLabel(a) ==
    CASE a = "1" -> "Floor1" [] a = "2" -> "Room" [] a = "3" -> "Zone"
      [] OTHER -> "Area" \o a

AreaRecord(a, parent) == [id |-> a, name |-> AreaLabel(a)] @@ OptVal("parent_id", parent)

ParentChoices == {Missing, PyNone} \cup {PyStr(a) : a \in AreaIds}

\* Every area table over AreaIds, cyclic parent chains included
AreaTables == {[a \in AreaIds |-> AreaRecord(a, f[a])] : f \in [AreaIds -> ParentChoices]}

\* Floor1 -> Room -> Zone, and any further area a root
ChainAreas ==
    [a \in AreaIds |->
        AreaRecord(a, CASE a = "1" -> Missing [] a = "2" -> PyStr("1")
                        [] a = "3" -> PyStr("2") [] OTHER -> PyNone)]

BridgeDevice ==
    [device_id |-> BRIDGE_DEVICE_ID, name |-> "Smart Bridge",
     device_name |-> "Smart Bridge", type |-> "SmartBridge", model |-> "L-BDG2-WH",
     serial |-> PyInt(10), area |-> "1"]

Keypad(serial, csn, type) ==
    [device_id |-> "2", name |-> "Main", device_name |-> "Main",
     type |-> type, model |-> "RRST-W4B", area |-> "3"]
    @@ OptVal("serial", serial) @@ OptStr("control_station_name", csn)

Button(id, parent, name, serial, csn, number) ==
    [device_id |-> id, type |-> "Pico3ButtonRaiseLower", model |-> "PJ2-3BRL",
     area |-> "2", button_number |-> number]
    @@ OptVal("parent_device", parent) @@ OptStr("device_name", name)
    @@ OptVal("serial", serial) @@ OptStr("control_station_name", csn)

OccupancyGroup(id) == [occupancy_group_id |-> id, status |-> "Occupied"]

\* Sample legacy tables: one type in both, one in the leap table alone, one in
\* the lip table alone; leap button 2 of the first type has no legacy number.
SampleLeap ==
    ("Pico3ButtonRaiseLower" :> (0 :> "on" @@ 1 :> "stop" @@ 2 :> "off"))
    @@ ("FourGroupRemote" :> (0 :> "open_all"))
SampleLip ==
    ("Pico3ButtonRaiseLower" :> ("on" :> 2 @@ "stop" :> 3))
    @@ ("Pico2Button" :> ("on" :> 2))

NoEntity == [constructed |-> FALSE]
EntityKeys == {<<"devices", "2">>, <<"buttons", "3">>, <<"buttons", "4">>}

InitHass ==
    /\ setup = "new"
    /\ dev_reg = {}
    /\ subscribers = {}
    /\ hass_data = FALSE
    /\ bridge_closed = FALSE
    /\ events = <<>>
    /\ entities = [k \in EntityKeys |-> NoEntity]
    /\ last = [op |-> "none"]

DefaultDevices ==
    (BRIDGE_DEVICE_ID :> BridgeDevice)
    @@ ("2" :> Keypad(PyInt(20), PyStr("Hallway"), "SunnataKeypad"))
DefaultButtons ==
    ("3" :> Button("3", PyStr("2"), PyStr("Up"), PyInt(20), Missing, 0))

\* ------------------------------------------------- area path resolution
InitArea ==
    /\ areas \in AreaTables
    /\ devices = DefaultDevices
    /\ buttons = DefaultButtons
    /\ occupancy_groups = Empty
    /\ leap_map = SampleLeap
    /\ lip_map = SampleLip
    /\ InitHass

NextArea == \E a \in AreaIds : AreaNameCall(a)

SpecArea == InitArea /\ [][NextArea]_vars

\* ------------------------------------------------ identity resolution
SerialChoices == {Missing, PyNone, PyInt(20)}
KeypadTypes == {"SunnataKeypad", "Pico3ButtonRaiseLower", "WallDimmer"}
KeypadChoices ==
    {Keypad(serial, csn, type) :
        serial \in SerialChoices, csn \in {Missing, PyStr("Hallway")}, type \in KeypadTypes}
ButtonChoices ==
    {Button("3", parent, name, serial, csn, 0) :
        parent \in {Missing, PyNone, PyStr("2"), PyStr("9")},
        name \in {Missing, PyStr("Up")},
        serial \in SerialChoices,
        csn \in {Missing, PyStr("Den")}}

InitInfo ==
    /\ areas = ChainAreas
    /\ \E keypad \in KeypadChoices : devices = (BRIDGE_DEVICE_ID :> BridgeDevice) @@ ("2" :> keypad)
    /\ \E button \in ButtonChoices : buttons = ("3" :> button)
    /\ occupancy_groups = Empty
    /\ leap_map = SampleLeap
    /\ lip_map = SampleLip
    /\ InitHass

NextInfo ==
    \/ \E id \in DOMAIN devices : DeviceInfoCall("devices", id)
    \/ \E id \in DOMAIN buttons : DeviceInfoCall("buttons", id)
    \/ \E key \in EntityKeys : ConstructEntity(key)
    \/ \E key \in EntityKeys : UniqueIdCall(key)

SpecInfo == InitInfo /\ [][NextInfo]_vars

\* --------------------------------------------- legacy button translation
PartialFns(D, R) == UNION {[S -> R] : S \in SUBSET D}

\* Every pair of tables over one device type: the type absent from a table, or
\* present with any partial map
LeapTables ==
    {Empty} \cup {("Pico3ButtonRaiseLower" :> f) :
                    f \in PartialFns(0..(MaxLeapButton - 1), {"on", "off"})}
LipTables ==
    {Empty} \cup {("Pico3ButtonRaiseLower" :> g) :
                    g \in PartialFns({"on", "off"}, {2, 4})}

InitLip ==
    /\ areas = ChainAreas
    /\ devices = DefaultDevices
    /\ buttons = DefaultButtons
    /\ occupancy_groups = Empty
    /\ leap_map \in LeapTables
    /\ lip_map \in LipTables
    /\ InitHass

NextLip ==
    \E device_type \in {"Pico3ButtonRaiseLower", "FourGroupRemote"},
       leap_button \in 0..MaxLeapButton :
        LipButtonCall(device_type, leap_button)

SpecLip == InitLip /\ [][NextLip]_vars

\* ---------------------------------------------------------- removal gate
RemoveButtonChoices ==
    {Button("3", parent, PyStr("Up"), serial, Missing, 0) :
        parent \in {PyNone, PyStr("2")},
        serial \in {Missing, PyNone, PyInt(20), PyInt(30)}}

\* The identifiers a device entry of the registry may carry
CandidateIdentifiers ==
    {id_to_identifier(v) :
        v \in {PyInt(10), PyStr("0000000a"), PyStr("occupancygroup_0000000a_5"),
               PyStr("occupancygroup_5"), PyInt(20), PyInt(30), PyInt(99),
               PyStr("0000000a_3"), PyNone}}

DeviceEntryIdentifiers ==
    {ids \in SUBSET CandidateIdentifiers : Cardinality(ids) \in {1, 2}}

InitRemove ==
    /\ areas = ChainAreas
    /\ \E serial \in SerialChoices :
          devices = (BRIDGE_DEVICE_ID :> BridgeDevice)
                    @@ ("2" :> Keypad(serial, PyStr("Hallway"), "SunnataKeypad"))
    /\ \E button \in RemoveButtonChoices : buttons = ("3" :> button)
    /\ occupancy_groups \in {Empty, ("5" :> OccupancyGroup("5"))}
    /\ leap_map = SampleLeap
    /\ lip_map = SampleLip
    /\ InitHass

NextRemove ==
    \/ SetupEntry("connected")
    \/ \E identifiers \in DeviceEntryIdentifiers : RemoveDeviceCall(identifiers)

SpecRemove == InitRemove /\ [][NextRemove]_vars

\* ------------------------------------------------------- the integration
InitSpec ==
    /\ areas = ChainAreas
    /\ \E serial \in {PyNone, PyInt(20)} :
          devices = (BRIDGE_DEVICE_ID :> BridgeDevice)
                    @@ ("2" :> Keypad(serial, PyStr("Hallway"), "SunnataKeypad"))
    /\ \E serial \in {Missing, PyInt(20)}, number \in {0, 2, 5} :
          buttons = ("3" :> Button("3", PyStr("2"), PyStr("Up"), serial, Missing, 1))
                    @@ ("4" :> Button("4", PyNone, PyStr("Pico"), PyInt(40), Missing, number))
    /\ occupancy_groups = ("5" :> OccupancyGroup("5"))
    /\ leap_map = SampleLeap
    /\ lip_map = SampleLip
    /\ InitHass

Next ==
    \/ \E conn \in {"ssl_error", "timeout", "refused", "connected"} : SetupEntry(conn)
    \/ \E button_id \in DOMAIN buttons, event_type \in {"Press", "Release"} :
          ButtonEvent(button_id, event_type)
    \/ \E key \in {<<"devices", "2">>, <<"buttons", "3">>} : hass_data /\ ConstructEntity(key)
    \/ BridgeRenamesArea("3", "Den")
    \/ BridgeRenamesDevice("2", "Entry")

Spec == InitSpec /\ [][Next]_vars

\* =============================================================== claims
\* The parent of an area, "" when it has none
ParentIdOf(ar, a) ==
    IF Has(ar[a], "parent_id") /\ ar[a].parent_id # PyNone THEN ar[a].parent_id[2]
    ELSE ""

\* The areas from the one `fuel` parents up (or the root) down to a
RECURSIVE RootToLeaf(_, _, _)
RootToLeaf(ar, a, fuel) ==
    IF fuel = 0 \/ ParentIdOf(ar, a) = "" THEN <<a>>
    ELSE Append(RootToLeaf(ar, ParentIdOf(ar, a), fuel - 1), a)

\* The parent chain of a reaches a root without visiting an area twice
AcyclicFrom(ar, a) ==
    LET chain == RootToLeaf(ar, a, MaxAreas)
    IN  /\ ParentIdOf(ar, chain[1]) = ""
        /\ \A i, j \in 1..Len(chain) : chain[i] = chain[j] => i = j

RECURSIVE SpaceJoined(_)
SpaceJoined(names) ==
    IF Len(names) = 1 THEN names[1]
    ELSE names[1] \o " " \o SpaceJoined(Tail(names))

ChainNames(ar, a) ==
    LET chain == RootToLeaf(ar, a, MaxAreas)
    IN  [i \in 1..Len(chain) |-> ar[chain[i]].name]

\* C1: for an area whose parent chain is acyclic, _area_name_from_id returns the
\* names of its ancestors root-to-leaf and then its own name, joined by single
\* spaces; an area with no parent_id field or a null parent_id resolves to
\* exactly its own name.
C1_AreaPathRootToLeaf ==
    (last.op = "area_name" /\ AcyclicFrom(areas, last.area_id)) =>
        /\ last.out.kind = "ok"
        /\ last.out.val = SpaceJoined(ChainNames(areas, last.area_id))
        /\ (ParentIdOf(areas, last.area_id) = ""
              => last.out.val = areas[last.area_id].name)

C1_Witness ==
    /\ last.op = "area_name"
    /\ last.area_id = "3"
    /\ areas = ChainAreas
    /\ last.out = Ok("Floor1 Room Zone")

\* C2: when the parent chain from area_id revisits an area (a cycle, an area
\* that is its own parent included), resolution stops at the revisit and reports
\* a configuration error: it enters at most one frame per area and one more.
C2_CycleReportedAtRevisit ==
    (last.op = "area_name" /\ ~AcyclicFrom(areas, last.area_id)) =>
        /\ last.out.kind = "raise"
        /\ last.out.err = "ConfigurationError"
        /\ last.frames <= MaxAreas + 1

\* The device a call or an entity of `last` is about
LastDevice == IF last.op = "device_info" THEN DeviceOf(last.tbl, last.id)
              ELSE DeviceOf(last.key[1], last.key[2])

SerialPresent(device) == Has(device, "serial") /\ device.serial # PyNone
ParentGiven(device) == Has(device, "parent_device") /\ device.parent_device # PyNone
ParentResolvable(device) == ParentGiven(device) /\ Has(devices, device.parent_device[2])

\* The id synthesized for a device without serial
SynthesizedId(device) ==
    PyStr(serial_to_unique_id(devices[BRIDGE_DEVICE_ID].serial) \o "_" \o device.device_id)

\* C3: the stable id of a device is its serial when it has one, and when the
\* serial is absent (field missing or null) a value synthesized from the bridge's
\* stable id and the device's internal id; a missing serial never makes the
\* resolution fail.  Stated of top-level devices: the identifier an entity
\* registers and the unique id it exposes.
C3_StableIdSerialOrSynthesized ==
    /\ (last.op = "construct" /\ last.key[1] = "devices") =>
          /\ last.out.kind = "ok"
          /\ last.out.val.has_attrs
          /\ last.out.val.attr_device_info.identifiers =
                {id_to_identifier(IF SerialPresent(LastDevice) THEN LastDevice.serial
                                  ELSE SynthesizedId(LastDevice))}
    /\ (last.op = "unique_id" /\ last.key[1] = "devices") =>
          /\ last.out.kind = "ok"
          /\ last.out.val = PyToStr(IF SerialPresent(LastDevice) THEN LastDevice.serial
                                    ELSE SynthesizedId(LastDevice))

\* The naming device as the claim has it: the parent when the parent reference
\* is present and resolvable, else the device itself
NamingDeviceClaimed(device) ==
    IF ParentResolvable(device) THEN devices[device.parent_device[2]] ELSE device

\* C6: the naming device is the parent when the parent reference is present and
\* resolvable in the device table, and otherwise (absent, null, or an id not in
\* the table) the device itself; area path, combined model and serial of the
\* result are the naming device's.
C6_NamingDeviceParentElseSelf ==
    (/\ last.op = "device_info"
     /\ Has(NamingDeviceClaimed(LastDevice), "device_name")
     /\ Has(NamingDeviceClaimed(LastDevice), "serial")) =>
        LET naming == NamingDeviceClaimed(LastDevice)
        IN  /\ last.out.kind = "ok"
            /\ last.out.val.ha_device_area = SpaceJoined(ChainNames(areas, naming.area))
            /\ last.out.val.ha_device_model_combined = naming.model \o " " \o naming.type
            /\ last.out.val.ha_device_identifiers = naming.serial

\* The naming device of a call that returned
NamingDevice(device) ==
    IF ParentGiven(device) THEN devices[device.parent_device[2]] ELSE device

\* C7: the display name is prefix + naming device name + suffix; with a
\* control_station_name the prefix is that name and one space and the suffix is
\* " Pico" for a type containing "Pico", else " Keypad" for one containing
\* "Keypad", else empty; without one both are empty whatever the type.
C7_DisplayName ==
    (last.op = "device_info" /\ last.out.kind = "ok") =>
        LET naming == NamingDevice(LastDevice)
            station == Has(naming, "control_station_name")
            prefix == IF station THEN naming.control_station_name \o " " ELSE ""
            suffix == CASE station /\ Contains(naming.type, "Pico") -> " Pico"
                        [] station /\ ~Contains(naming.type, "Pico")
                             /\ Contains(naming.type, "Keypad") -> " Keypad"
                        [] OTHER -> ""
        IN  last.out.val.ha_device_name = prefix \o naming.device_name \o suffix

C7_Witness ==
    /\ last.op = "device_info"
    /\ last.tbl = "buttons"
    /\ ParentGiven(LastDevice)
    /\ last.out.kind = "ok"
    /\ Has(NamingDevice(LastDevice), "control_station_name")
    /\ NamingDevice(LastDevice).control_station_name = "Hallway"
    /\ Contains(NamingDevice(LastDevice).type, "Keypad")
    /\ last.out.val.ha_device_name = "Hallway Main Keypad"

OwnLabel(device) == IF Has(device, "device_name") THEN device.device_name ELSE ""

\* C8 as stated: entity_name is display_name + " " + the device's own label for a
\* button borrowing a parent's identity and exactly display_name for a top-level
\* device; the combined entity name is area_path + " " + entity_name.
C8_EntityNameIsDisplayName ==
    (last.op = "device_info" /\ last.out.kind = "ok") =>
        LET r == last.out.val
        IN  /\ ParentGiven(LastDevice) =>
                 r.entity_name = r.ha_device_name \o " " \o OwnLabel(LastDevice)
            /\ ~ParentGiven(LastDevice) => r.entity_name = r.ha_device_name
            /\ r.entity_name_combined = r.ha_device_area \o " " \o r.entity_name

\* C8 amended: entity_name is display_name + " " + the device's own label (empty
\* when it has no device_name) for a button borrowing a parent's identity, and
\* exactly the device's own device_name, without station prefix or suffix, for a
\* top-level device; the combined entity name is area_path + " " + entity_name.
C8_EntityNameIsOwnLabel ==
    (last.op = "device_info" /\ last.out.kind = "ok") =>
        LET r == last.out.val
        IN  /\ ParentGiven(LastDevice) =>
                 r.entity_name = r.ha_device_name \o " " \o OwnLabel(LastDevice)
            /\ ~ParentGiven(LastDevice) => r.entity_name = LastDevice.device_name
            /\ r.entity_name_combined = r.ha_device_area \o " " \o r.entity_name

C8_Witness ==
    /\ last.op = "device_info"
    /\ last.tbl = "devices"
    /\ last.id = "2"
    /\ last.out.kind = "ok"
    /\ last.out.val.ha_device_name = "Hallway Main Keypad"
    /\ last.out.val.entity_name = "Main"
    /\ last.out.val.entity_name_combined = "Floor1 Room Zone Main"

\* C4: async_get_lip_button returns the legacy integer when the type is in both
\* tables and the leap number maps to a name that has a legacy number, and in
\* every other case returns None: it never raises.
C4_NoneNeverRaises ==
    last.op = "lip_button" =>
        LET t == last.device_type
            n == last.leap_button
            translated == /\ Has(lip_map, t) /\ Has(leap_map, t)
                          /\ Has(leap_map[t], n)
                          /\ Has(lip_map[t], leap_map[t][n])
        IN  /\ last.out.kind = "ok"
            /\ last.out.val = IF translated THEN PyInt(lip_map[t][leap_map[t][n]])
                              ELSE PyNone

\* The identifier set of the bridge as the claim has it
BridgeStableId == serial_to_unique_id(devices[BRIDGE_DEVICE_ID].serial)
ClaimedIdentifiers ==
    {<<DOMAIN_NAME, PyStr(BridgeStableId)>>}
    \cup {<<DOMAIN_NAME, PyStr("occupancygroup_" \o BridgeStableId \o "_" \o g)>> :
            g \in DOMAIN occupancy_groups}
    \cup {<<DOMAIN_NAME, devices[d].serial>> : d \in DOMAIN devices}
    \cup {<<DOMAIN_NAME, buttons[b].serial>> : b \in DOMAIN buttons}

\* C5: async_remove_config_entry_device returns true exactly when no identifier
\* of the device entry is in the bridge's identifier set: the bridge's stable id,
\* occupancygroup_{bridge id}_{group id} per occupancy group, and the raw serial
\* of every device and button; so false for the bridge's own serial and true for
\* a serial in none of these.  Stated of the calls that return a value.
C5_RemovableIffNoIdentifierOwned ==
    (last.op = "remove" /\ last.out.kind = "ok") =>
        /\ last.out.val = (last.identifiers \cap ClaimedIdentifiers = {})
        /\ <<DOMAIN_NAME, devices[BRIDGE_DEVICE_ID].serial>> \in last.identifiers
              => last.out.val = FALSE
        /\ last.identifiers = {<<DOMAIN_NAME, PyInt(99)>>} => last.out.val = TRUE

C5_Witness ==
    /\ last.op = "remove"
    /\ last.identifiers = {<<DOMAIN_NAME, PyInt(10)>>}
    /\ occupancy_groups # Empty
    /\ last.out = Ok(FALSE)

\* The display name and area path of a button's naming device under the current
\* tables
CurrentDisplayName(device) ==
    LET naming == NamingDevice(device)
        station == Has(naming, "control_station_name")
    IN  (IF station THEN naming.control_station_name \o " " ELSE "")
        \o naming.device_name
        \o (IF station /\ Contains(naming.type, "Pico") THEN " Pico"
            ELSE IF station /\ Contains(naming.type, "Keypad") THEN " Keypad"
            ELSE "")
CurrentAreaPath(device) == SpaceJoined(ChainNames(areas, NamingDevice(device).area))

LastEvent == events[Len(events)]

\* C9: every press or release delivered for a button id of the subscribed table
\* publishes exactly one event with the resolved serial, the type, the legacy
\* number (None without legacy equivalent), the leap number, display name, area
\* name and the action tag (press exactly for 'pressed'); an id not in the table
\* publishes none.
C9_OneEventPerNotification ==
    last.op = "button_event" =>
        IF Has(buttons, last.button_id)
        THEN LET device == buttons[last.button_id]
             IN  /\ last.fired = 1
                 /\ LastEvent.serial = NamingDevice(device).serial
                 /\ LastEvent.leap_button_number = device.button_number
                 /\ LastEvent.device_name = CurrentDisplayName(device)
                 /\ LastEvent.area_name = CurrentAreaPath(device)
                 /\ LastEvent.action = IF last.event_type = "Press" THEN "press"
                                       ELSE "release"
        ELSE last.fired = 0

\* The last event carries the display name, area path and serial the current
\* tables give the button's naming device
LastEventCurrent ==
    (last.op = "button_event" /\ last.fired = 1) =>
        LET device == buttons[last.button_id]
        IN  /\ LastEvent.device_name = CurrentDisplayName(device)
            /\ LastEvent.area_name = CurrentAreaPath(device)
            /\ LastEvent.serial = NamingDevice(device).serial

\* The name and device name an entity exposes are those of the current tables
EntityCurrent(key) ==
    (entities[key].constructed /\ entities[key].has_attrs) =>
        LET device == DeviceOf(key[1], key[2])
        IN  /\ entities[key].attr_device_info.name =
                  CurrentAreaPath(device) \o " " \o CurrentDisplayName(device)
            /\ entities[key].attr_device_info.suggested_area = CurrentAreaPath(device)

\* C10 as stated: after the device or area table changes, the next published
\* button event and the name and device info of an already-constructed entity
\* show the current table values.
C10_NoStaleDerivedFacts ==
    /\ LastEventCurrent
    /\ \A key \in EntityKeys : EntityCurrent(key)

\* C10 amended: a published button event shows the table values current when the
\* notification is handled; the name and device info of an entity are computed
\* once, in its constructor, and no later step changes them.
C10_Step ==
    /\ LastEventCurrent'
    /\ \A key \in EntityKeys :
          entities[key].constructed => entities'[key] = entities[key]

\* C10 amended, over every step: published events show the current tables and
\* a constructed entity keeps what its constructor computed.
C10_EventsCurrentEntitiesKept == [][C10_Step]_vars

C10_Witness ==
    /\ entities[<<"devices", "2">>].constructed
    /\ entities[<<"devices", "2">>].attr_device_info.name = "Floor1 Room Zone Hallway Main Keypad"
    /\ last.op = "button_event"
    /\ last.button_id = "3"
    /\ last.fired = 1
    /\ LastEvent.area_name = "Floor1 Room Den"
    /\ LastEvent.device_name = "Hallway Entry Keypad"

\* What a call of _get_ha_device_info for the device of `last` returns on the
\* tables as they are now
InfoNow == get_ha_device_info(devices, areas, devices[BRIDGE_DEVICE_ID], LastDevice)

\* A step that is a call of _get_ha_device_info leaves the device table, the
\* button table, the area table, the bridge record and the device record as they
\* were, and a second call on what it left returns the record it returned.
C11_Step ==
    last'.op = "device_info" =>
        /\ devices' = devices
        /\ buttons' = buttons
        /\ areas' = areas
        /\ devices'[BRIDGE_DEVICE_ID] = devices[BRIDGE_DEVICE_ID]
        /\ LastDevice' = DeviceOf(last'.tbl, last'.id)
        /\ InfoNow' = last'.out

\* C11: _get_ha_device_info is idempotent and free of side effects: no call
\* changes the device table, the area table, the bridge root record or the
\* device record passed in, and a second call for the same device on the
\* unchanged tables returns the identical record.
C11_InfoIdempotentNoSideEffects == [][C11_Step]_vars

C11_Witness ==
    /\ last.op = "device_info"
    /\ last.tbl = "buttons"
    /\ ParentResolvable(LastDevice)
    /\ last.out.kind = "ok"
    /\ InfoNow = last.out
    /\ last.out.val.ha_device_name = "Hallway Main Keypad"

\* The connection attempt of the setup step that led to `last` timed out, or
\* the bridge was not connected after it
NotConnected(conn) == conn \in {"timeout", "refused"}

AnyEntity == \E key \in DOMAIN entities : entities[key] # NoEntity

\* A setup step whose connection attempt timed out or left the bridge not
\* connected closes the bridge and ends not ready with nothing registered,
\* subscribed or stored; after it nothing is registered, subscribed, stored or
\* constructed either; bridge data is first stored by a setup step that
\* connected, and a platform constructs an entity only on stored bridge data.
C12_Step ==
    /\ (last'.op = "setup" /\ setup = "new" /\ NotConnected(last'.conn)) =>
           /\ setup' = "not_ready"
           /\ bridge_closed'
           /\ dev_reg' = dev_reg /\ dev_reg' = {}
           /\ subscribers' = subscribers /\ subscribers' = {}
           /\ ~hass_data'
           /\ ~AnyEntity'
    /\ setup = "not_ready" =>
           /\ setup' = "not_ready"
           /\ bridge_closed'
           /\ dev_reg' = dev_reg
           /\ subscribers' = subscribers
           /\ hass_data' = hass_data
           /\ events' = events
           /\ entities' = entities
    /\ (hass_data' /\ ~hass_data) =>
           /\ last'.op = "setup" /\ last'.conn = "connected"
           /\ setup' = "loaded"
           /\ ~bridge_closed'
    /\ entities' # entities => hass_data /\ setup = "loaded"

\* C12: in async_setup_entry, whenever the connection attempt times out or the
\* bridge is not connected afterwards, the bridge is closed and setup ends with
\* a not-ready error before any device is registered, any button subscription
\* is added or any bridge data is stored for the entry; bridge data is stored
\* and platforms are forwarded only after a successful connection.
C12_NotReadyBeforeAnyRegistration == [][C12_Step]_vars

C12_Witness ==
    /\ last.op = "setup"
    /\ NotConnected(last.conn)
    /\ setup = "not_ready"
    /\ bridge_closed
    /\ dev_reg = {}
    /\ subscribers = {}
    /\ ~hass_data

====
